---- MODULE Spec2Model ----
(***************************************************************************)
(* Coffee Shop Reporting Dashboard (src/app.py).                           *)
(*                                                                         *)
(* The page is a Streamlit script: every user interaction re-executes the  *)
(* script top to bottom.  What survives a run is the widget state of the   *)
(* session and the st.cache_data entry of get_data_from_excel.             *)
(*                                                                         *)
(* A table (pandas DataFrame) is a record                                  *)
(*     [dtypes : column -> dtype, rows : sequence of rows]                 *)
(* a row is [index, TURU, MIKTAR, AY, TIPI] where index is the pandas row  *)
(* label and every other field is a cell                                   *)
(*     [na, s, n, d, t]   (missing?, text, number, day, time of day).      *)
(* Text is a sequence of one-character strings so that substring and       *)
(* date parsing are computed, not assumed.                                 *)
(***************************************************************************)
EXTENDS Integers, Sequences, FiniteSets, TLC

VARIABLES
    pc,                 \* which part of the script the last step executed
    uploaded_file,      \* st.file_uploader value: None or a file
    cache,              \* st.cache_data entry of get_data_from_excel
    chsn,               \* st.radio value
    modify,             \* st.checkbox("Add filters") value
    to_filter_columns,  \* st.multiselect("Filter dataframe on") value
    user_input,         \* values of the per-column filter widgets
    excel_df,           \* module global excel_df
    filtered_df,        \* module global filtered_df
    controls,           \* the per-column widgets rendered by the last run
    error,              \* exception that ended the last run ("none" if none)
    shown,              \* report view rendered by the last run
    dfx,                \* show_tab4: top selection
    dfy                 \* show_tab4: bottom selection

vars == <<pc, uploaded_file, cache, chsn, modify, to_filter_columns,
          user_input, excel_df, filtered_df, controls, error, shown, dfx, dfy>>

\* An optional value: None, or Some(x) holding x as its one element.
None == <<>>
Some(x) == <<x>>

(***************************************************************************)
(* Bounds of the model.                                                    *)
(***************************************************************************)
MaxRows == 22        \* largest table handed to filter_dataframe
MaxDeselect == 1     \* multiselect options a user may deselect: the first ones
MaxSelected == 1     \* columns selected for filtering in a page session
MaxTopRows == 52     \* largest table handed to show_tab4 on its own

(***************************************************************************)
(* Program constants.                                                      *)
(***************************************************************************)
CategoricalLimit == 20   \* df[column].nunique() < 20
SliderSteps == 100       \* step = (_max - _min) / 100
TopN == 25               \* nlargest(25, ...), nsmallest(25, ...)

Columns == <<"TURU", "MIKTAR", "AY", "TIPI">>
ColumnSet == {Columns[k] : k \in 1..Len(Columns)}

Views == <<"Ana Tablo", "Sunburst - Tutara Gore", "Sunburst - Miktara Gore", "Top 25">>

(***************************************************************************)
(* Cells.                                                                  *)
(***************************************************************************)
NaN == [na |-> TRUE, s |-> <<>>, n |-> 0, d |-> 0, t |-> 0]
Text(str) == [na |-> FALSE, s |-> str, n |-> 0, d |-> 0, t |-> 0]
Num(v) == [na |-> FALSE, s |-> <<>>, n |-> v, d |-> 0, t |-> 0]
Stamp(day, tod) == [na |-> FALSE, s |-> <<>>, n |-> 0, d |-> day, t |-> tod]

Letters == <<"a", "b", "c", "d", "e">>
Digits == <<"0", "1", "2", "3", "4", "5", "6", "7", "8", "9">>
DigitSet == {Digits[k] : k \in 1..Len(Digits)}
DigitVal(c) == (CHOOSE k \in 1..Len(Digits) : Digits[k] = c) - 1

EmptyTable == [dtypes |-> [c \in ColumnSet |-> "object"], rows |-> <<>>]


(***************************************************************************)
(* Uploaded files.  A file either holds a sheet named "Monthly" or not;    *)
(* the sheet of a file is fixed by its content [n, q, a, miss]:            *)
(*   n     number of data rows                                             *)
(*   q     MIKTAR: "distinct" values, "few" (three) values, a "single" one *)
(*         ("wide": distinct values, in the longer sheets of SpecTop)      *)
(*   a     AY: "datetime" cells, "datestrz" date text with a UTC suffix,   *)
(*         "mixed" date text with and without the suffix                   *)
(*   miss  whether some cells are empty                                    *)
(***************************************************************************)
RowCounts == {0, 2} \cup ((MaxRows - 2)..MaxRows)
QuantityShapes == {"distinct", "few", "single"}
MonthShapes == {"datetime", "datestrz", "mixed"}

Files == [monthly : BOOLEAN, n : RowCounts, q : QuantityShapes,
          a : MonthShapes, miss : BOOLEAN]

DayText(i) == <<Digits[(i \div 10) + 1], Digits[(i % 10) + 1]>>

SheetRow(f, i) ==
    [index |-> i - 1,
     TURU |-> IF f.miss /\ i = 2 THEN NaN ELSE Text(<<Letters[(i % 3) + 1]>>),
     MIKTAR |-> IF f.miss /\ i = 3 THEN NaN
                ELSE IF f.q = "distinct" THEN Num((7 * i) % (MaxRows + 1))
                ELSE IF f.q = "wide" THEN Num((7 * i) % (MaxTopRows + 1))
                ELSE IF f.q = "few" THEN Num(i % 3)
                ELSE Num(7),
     AY |-> IF f.miss /\ i = 1 THEN NaN
            ELSE IF f.a = "datetime" THEN Stamp(i \div 2, i % 2)
            ELSE IF f.a = "datestrz" THEN Text(DayText(i) \o <<"z">>)
            ELSE IF i % 2 = 1 THEN Text(DayText(i) \o <<"z">>)
            ELSE Text(DayText(i)),
     TIPI |-> IF f.miss /\ i = 4 THEN NaN
              ELSE Text(<<Letters[((i \div 5) % 5) + 1], Letters[(i % 5) + 1]>>)]

\* A sequence given as a function, with every element computed once.
Rows(f, n) == SubSeq(f, 1, n)

\* What pd.read_excel infers for the sheet of file f.
Sheet(f) ==
    [dtypes |-> [TURU |-> "object",
                 MIKTAR |-> IF f.miss /\ f.n >= 3 THEN "float64" ELSE "int64",
                 AY |-> IF f.a = "datetime" THEN "datetime64[ns]" ELSE "object",
                 TIPI |-> "object"],
     rows |-> Rows([i \in 1..f.n |-> SheetRow(f, i)], f.n)]

\* The row labels of a table, in order.
IndexOf(df) == Rows([k \in 1..Len(df.rows) |-> df.rows[k].index], Len(df.rows))

(***************************************************************************)
(* pandas.api.types predicates and column operations.                      *)
(***************************************************************************)
is_object_dtype(dtype) == dtype = "object"
is_categorical_dtype(dtype) == dtype = "category"
is_numeric_dtype(dtype) == dtype \in {"int64", "float64"}
is_datetime64_any_dtype(dtype) == dtype \in {"datetime64[ns]", "datetime64[ns, UTC]"}

Present(df, column) == SelectSeq(df.rows, LAMBDA r : ~r[column].na)
ValuesOf(rows, column) == {rows[k][column] : k \in 1..Len(rows)}

\* Series.nunique(): distinct values, missing ones not counted.
nunique(df, column) == Cardinality(ValuesOf(Present(df, column), column))

\* Series.unique(): distinct values in first-seen order, NaN included once.
RECURSIVE UniqueFrom(_, _, _, _)
UniqueFrom(rows, column, k, acc) ==
    IF k > Len(rows) THEN acc
    ELSE IF \E j \in 1..Len(acc) : acc[j] = rows[k][column]
         THEN UniqueFrom(rows, column, k + 1, acc)
         ELSE UniqueFrom(rows, column, k + 1, Append(acc, rows[k][column]))

unique(df, column) == UniqueFrom(df.rows, column, 1, <<>>)

\* Timestamp order.
TsLeq(x, y) == x.d < y.d \/ (x.d = y.d /\ x.t <= y.t)

(***************************************************************************)
(* Lines 368-377: best-effort conversion of object columns to date-time,   *)
(* then removal of the time zone.                                          *)
(***************************************************************************)
\* A text parses as a date when it is two digits, optionally followed by z.
ParsesAsDate(str) ==
    /\ Len(str) \in {2, 3}
    /\ str[1] \in DigitSet
    /\ str[2] \in DigitSet
    /\ Len(str) = 3 => str[3] = "z"

HasZone(str) == Len(str) = 3
ParsedDay(str) == 10 * DigitVal(str[1]) + DigitVal(str[2])

\* pd.to_datetime(df[col]) succeeds: every present value parses, and the
\* values agree on carrying a zone.
to_datetime_ok(df, column) ==
    LET vals == ValuesOf(Present(df, column), column) IN
    /\ \A v \in vals : ParsesAsDate(v.s)
    /\ Cardinality({HasZone(v.s) : v \in vals}) <= 1

to_datetime_dtype(df, column) ==
    IF \E v \in ValuesOf(Present(df, column), column) : HasZone(v.s)
    THEN "datetime64[ns, UTC]" ELSE "datetime64[ns]"

to_datetime_cell(cell) == IF cell.na THEN NaN ELSE Stamp(ParsedDay(cell.s), 0)

\* Lines 370-374 for one column: whether it is replaced by its conversion.
Converts(df, column) ==
    is_object_dtype(df.dtypes[column]) /\ to_datetime_ok(df, column)

\* Lines 370-377 for one column: its dtype after the loop body.
NormalDtype(df, column) ==
    LET parsed == IF Converts(df, column) THEN to_datetime_dtype(df, column)
                  ELSE df.dtypes[column]
    IN IF is_datetime64_any_dtype(parsed) THEN "datetime64[ns]" ELSE parsed

NormalRow(r, conv) ==
    [index |-> r.index,
     TURU |-> IF conv.TURU THEN to_datetime_cell(r.TURU) ELSE r.TURU,
     MIKTAR |-> IF conv.MIKTAR THEN to_datetime_cell(r.MIKTAR) ELSE r.MIKTAR,
     AY |-> IF conv.AY THEN to_datetime_cell(r.AY) ELSE r.AY,
     TIPI |-> IF conv.TIPI THEN to_datetime_cell(r.TIPI) ELSE r.TIPI]

NormalRows(df, conv) ==
    Rows([k \in 1..Len(df.rows) |-> NormalRow(df.rows[k], conv)], Len(df.rows))

\* The loop of lines 369-377 over df.columns; columns are independent.
Normalize(df) ==
    [dtypes |-> [TURU |-> NormalDtype(df, "TURU"),
                 MIKTAR |-> NormalDtype(df, "MIKTAR"),
                 AY |-> NormalDtype(df, "AY"),
                 TIPI |-> NormalDtype(df, "TIPI")],
     rows |-> NormalRows(df, [TURU |-> Converts(df, "TURU"),
                              MIKTAR |-> Converts(df, "MIKTAR"),
                              AY |-> Converts(df, "AY"),
                              TIPI |-> Converts(df, "TIPI")])]

(***************************************************************************)
(* Widget values of one selected column.  Only the field of the widget     *)
(* actually rendered for the column is read:                               *)
(*   drop    multiselect: positions of the options the user deselected     *)
(*   klo,khi slider: the chosen ends, in steps from _min                   *)
(*   picked  date_input: whether the user changed the pre-filled range     *)
(*   dates   date_input: the dates picked, one (range half entered) or two *)
(*   pat     text_input: the pattern typed                                 *)
(***************************************************************************)
DefaultInput ==
    [drop |-> {}, klo |-> 0, khi |-> SliderSteps, picked |-> FALSE,
     dates |-> <<>>, pat |-> <<>>]

NoControl(column, kind, df) ==
    [column |-> column, kind |-> kind, options |-> <<>>, min |-> 0, max |-> 0,
     span |-> 0, value |-> <<>>, before |-> IndexOf(df), after |-> IndexOf(df)]

Narrowed(df, rows) == [dtypes |-> df.dtypes, rows |-> rows]

\* re.compile(pattern) raises re.error: an opening parenthesis never closed.
InvalidPattern(pat) == \E k \in 1..Len(pat) : pat[k] = "("

\* re.search(pattern, str): a dot matches any character, others themselves.
Contains(str, pat) ==
    \E off \in 0..(Len(str) - Len(pat)) :
        \A k \in 1..Len(pat) : pat[k] = "." \/ pat[k] = str[off + k]

\* Lines 387-393: multiselect over unique(), default all of them; isin().
CategoricalStep(df, column, inp) ==
    LET options == unique(df, column)
        user_cat_input == {options[k] : k \in (1..Len(options)) \ inp.drop}
        rows == SelectSeq(df.rows, LAMBDA r : r[column] \in user_cat_input)
    IN [df |-> Narrowed(df, rows), err |-> "none",
        control |-> [NoControl(column, "categorical", df) EXCEPT
                        !.options = options,
                        !.after = IndexOf(Narrowed(df, rows))]]

\* between(left, right) with both ends excluded.
NumericStep_exclusive(df, column, inp) ==
    LET vals == {v.n : v \in ValuesOf(Present(df, column), column)}
        _min == CHOOSE v \in vals : \A w \in vals : v <= w
        _max == CHOOSE v \in vals : \A w \in vals : w <= v
        span == _max - _min
        rows == SelectSeq(df.rows, LAMBDA r :
                    /\ ~r[column].na
                    /\ SliderSteps * _min + inp.klo * span < SliderSteps * r[column].n
                    /\ SliderSteps * r[column].n < SliderSteps * _min + inp.khi * span)
        ctl == [NoControl(column, "numeric", df) EXCEPT
                   !.min = _min, !.max = _max, !.span = span]
    IN [df |-> Narrowed(df, rows), err |-> "none",
        control |-> [ctl EXCEPT !.after = IndexOf(Narrowed(df, rows))]]

\* Lines 394-405: slider from _min to _max in steps of (_max - _min) / 100;
\* between() is inclusive and false on a missing value.  The chosen ends are
\* _min + klo * step and _min + khi * step, compared here times 100.
\* st.slider rejects a step of 0 (and the NaN ends of a column without any
\* value); the loop reaches this branch only with 20 distinct values.
NumericStep(df, column, inp) ==
    LET vals == {v.n : v \in ValuesOf(Present(df, column), column)}
        _min == CHOOSE v \in vals : \A w \in vals : v <= w
        _max == CHOOSE v \in vals : \A w \in vals : w <= v
        span == _max - _min
        rows == SelectSeq(df.rows, LAMBDA r :
                    /\ ~r[column].na
                    /\ SliderSteps * _min + inp.klo * span <= SliderSteps * r[column].n
                    /\ SliderSteps * r[column].n <= SliderSteps * _min + inp.khi * span)
        ctl == [NoControl(column, "numeric", df) EXCEPT
                   !.min = _min, !.max = _max, !.span = span]
    IN IF vals = {}
       THEN [df |-> df, err |-> "StreamlitAPIException",
             control |-> NoControl(column, "numeric", df)]
       ELSE IF span = 0
       THEN [df |-> df, err |-> "StreamlitAPIException", control |-> ctl]
       ELSE [df |-> Narrowed(df, rows), err |-> "none",
             control |-> [ctl EXCEPT !.after = IndexOf(Narrowed(df, rows))]]

\* Lines 406-417: date_input pre-filled with (min, max), which it shows and
\* returns as dates; a filter only when two dates come back, each taken at
\* midnight by pd.to_datetime; between() is inclusive and false on NaT.
DatetimeStep(df, column, inp) ==
    LET vals == ValuesOf(Present(df, column), column)
        lo == CHOOSE v \in vals : \A w \in vals : TsLeq(v, w)
        hi == CHOOSE v \in vals : \A w \in vals : TsLeq(w, v)
        value == <<lo.d, hi.d>>
        user_date_input == IF inp.picked THEN inp.dates ELSE value
        start_date == Stamp(user_date_input[1], 0)
        end_date == Stamp(user_date_input[2], 0)
        rows == SelectSeq(df.rows, LAMBDA r :
                    /\ ~r[column].na
                    /\ TsLeq(start_date, r[column])
                    /\ TsLeq(r[column], end_date))
        ctl == [NoControl(column, "datetime", df) EXCEPT !.value = value]
    IN IF Len(user_date_input) = 2
       THEN [df |-> Narrowed(df, rows), err |-> "none",
             control |-> [ctl EXCEPT !.after = IndexOf(Narrowed(df, rows))]]
       ELSE [df |-> df, err |-> "none", control |-> ctl]

\* Lines 418-423: text_input, empty by default; str.contains compiles the
\* pattern, gives NaN on a missing value, and a mask holding NaN cannot index.
TextStep(df, column, inp) ==
    LET user_text_input == inp.pat
        rows == SelectSeq(df.rows, LAMBDA r : Contains(r[column].s, user_text_input))
        ctl == NoControl(column, "text", df)
    IN IF user_text_input = <<>>
       THEN [df |-> df, err |-> "none", control |-> ctl]
       ELSE IF InvalidPattern(user_text_input)
       THEN [df |-> df, err |-> "re.error", control |-> ctl]
       ELSE IF \E k \in 1..Len(df.rows) : df.rows[k][column].na
       THEN [df |-> df, err |-> "ValueError", control |-> ctl]
       ELSE [df |-> Narrowed(df, rows), err |-> "none",
             control |-> [ctl EXCEPT !.after = IndexOf(Narrowed(df, rows))]]

\* The chain with the dtype tests ahead of the count of distinct values.
Kind_dtype_first(df, column) ==
    IF is_categorical_dtype(df.dtypes[column]) THEN "categorical"
    ELSE IF is_numeric_dtype(df.dtypes[column]) THEN "numeric"
    ELSE IF nunique(df, column) < CategoricalLimit THEN "categorical"
    ELSE IF is_datetime64_any_dtype(df.dtypes[column]) THEN "datetime"
    ELSE "text"

\* The chain with the count of distinct values compared by <= instead of <.
Kind_limit_inclusive(df, column) ==
    IF is_categorical_dtype(df.dtypes[column]) \/ nunique(df, column) <= CategoricalLimit
    THEN "categorical"
    ELSE IF is_numeric_dtype(df.dtypes[column]) THEN "numeric"
    ELSE IF is_datetime64_any_dtype(df.dtypes[column]) THEN "datetime"
    ELSE "text"

\* The if / elif chain of lines 387, 394, 406, 418.
Kind(df, column) ==
    IF is_categorical_dtype(df.dtypes[column]) \/ nunique(df, column) < CategoricalLimit
    THEN "categorical"
    ELSE IF is_numeric_dtype(df.dtypes[column]) THEN "numeric"
    ELSE IF is_datetime64_any_dtype(df.dtypes[column]) THEN "datetime"
    ELSE "text"

\* One pass of the loop body, lines 384-423.
ColumnStep(df, column, inp) ==
    LET kind == Kind(df, column) IN
    IF kind = "categorical" THEN CategoricalStep(df, column, inp)
    ELSE IF kind = "numeric" THEN NumericStep(df, column, inp)
    ELSE IF kind = "datetime" THEN DatetimeStep(df, column, inp)
    ELSE TextStep(df, column, inp)

\* The loop with every mask applied to the table the loop started from.
RECURSIVE FilterLoop_from_start(_, _, _, _, _)
FilterLoop_from_start(df, columns, inputs, k, ctls) ==
    IF k > Len(columns)
    THEN [df |-> df, err |-> "none", controls |-> ctls]
    ELSE LET step == ColumnStep(df, columns[k], inputs[k]) IN
         IF step.err # "none"
         THEN [df |-> df, err |-> step.err, controls |-> Append(ctls, step.control)]
         ELSE IF k = Len(columns)
         THEN [df |-> step.df, err |-> "none", controls |-> Append(ctls, step.control)]
         ELSE FilterLoop_from_start(df, columns, inputs, k + 1, Append(ctls, step.control))

\* The loop of line 383.  An exception leaves the loop and the function.
RECURSIVE FilterLoop(_, _, _, _, _)
FilterLoop(df, columns, inputs, k, ctls) ==
    IF k > Len(columns)
    THEN [df |-> df, err |-> "none", controls |-> ctls]
    ELSE LET step == ColumnStep(df, columns[k], inputs[k]) IN
         IF step.err # "none"
         THEN [df |-> df, err |-> step.err, controls |-> Append(ctls, step.control)]
         ELSE FilterLoop(step.df, columns, inputs, k + 1, Append(ctls, step.control))

\* filter_dataframe without the early return of lines 363-364.
filter_dataframe_no_return(df, add_filters, columns, inputs) ==
    LET out == FilterLoop(Normalize(df), columns, inputs, 1, <<>>)
    IN [df |-> out.df, given |-> df, err |-> out.err, controls |-> out.controls]

\* filter_dataframe without the copy of line 366: the column assignments of
\* lines 372 and 377 then land in the caller's table.
filter_dataframe_no_copy(df, add_filters, columns, inputs) ==
    IF ~add_filters
    THEN [df |-> df, given |-> df, err |-> "none", controls |-> <<>>]
    ELSE LET out == FilterLoop(Normalize(df), columns, inputs, 1, <<>>)
         IN [df |-> out.df, given |-> Normalize(df), err |-> out.err,
             controls |-> out.controls]

\* filter_dataframe(df).  The result record holds
\*   df        the value returned (meaningful when err = "none")
\*   given     the caller's table as the call leaves it
\*   err       the exception raised, "none" when the function returns
\*   controls  the per-column widgets rendered
filter_dataframe(df, add_filters, columns, inputs) ==
    IF ~add_filters
    THEN [df |-> df, given |-> df, err |-> "none", controls |-> <<>>]
    ELSE LET copy == df
             out == FilterLoop(Normalize(copy), columns, inputs, 1, <<>>)
         IN [df |-> out.df, given |-> df, err |-> out.err, controls |-> out.controls]

(***************************************************************************)
(* What a user can enter in the widgets of filter_dataframe.               *)
(***************************************************************************)
\* st.multiselect("Filter dataframe on", df.columns): no column, one, or two.
ColumnChoices ==
    {<<>>} \cup {<<c>> : c \in ColumnSet}
           \cup {<<w[1], w[2]>> : w \in {v \in ColumnSet \X ColumnSet : v[1] # v[2]}}

SliderPicks == {0, SliderSteps \div 2, SliderSteps}
Patterns == {<<>>, <<"a">>, <<"b", "c">>, <<".", "d">>, <<"(">>}

\* The values the widget of control ctl can return.
InputsFor(ctl) ==
    IF ctl.kind = "categorical"
    THEN {[DefaultInput EXCEPT !.drop = D] :
            D \in SUBSET {k \in 1..MaxDeselect : k <= Len(ctl.options)}}
    ELSE IF ctl.kind = "numeric"
    THEN {[DefaultInput EXCEPT !.klo = a, !.khi = b] :
            <<a, b>> \in {w \in SliderPicks \X SliderPicks : w[1] <= w[2]}}
    ELSE IF ctl.kind = "datetime"
    THEN LET days == {ctl.value[1], ctl.value[2] - 1, ctl.value[2]} IN
         {DefaultInput,
          [DefaultInput EXCEPT !.picked = TRUE, !.dates = <<ctl.value[1]>>]}
         \cup {[DefaultInput EXCEPT !.picked = TRUE, !.dates = <<w[1], w[2]>>] :
                 w \in {v \in days \X days : v[1] <= v[2]}}
    ELSE {[DefaultInput EXCEPT !.pat = q] : q \in Patterns}

\* The widget values for columns[k..]: each widget is offered for the table
\* as narrowed so far; after an exception no further widget exists.
RECURSIVE InputChoices(_, _, _)
InputChoices(df, columns, k) ==
    IF k > Len(columns) THEN {<<>>}
    ELSE UNION {
        LET step == ColumnStep(df, columns[k], i) IN
        IF step.err # "none"
        THEN {<<i>> \o [j \in 1..(Len(columns) - k) |-> DefaultInput]}
        ELSE {<<i>> \o rest : rest \in InputChoices(step.df, columns, k + 1)} :
        i \in InputsFor(ColumnStep(df, columns[k], DefaultInput).control)}

(***************************************************************************)
(* SpecFilter: filter_dataframe as a function of the table and the widget  *)
(* values, over every sheet of the file family.                            *)
(***************************************************************************)
Sheets == {Sheet(f) : f \in {g \in Files : g.monthly}}

InitFilter ==
    /\ pc = "drawn"
    /\ excel_df \in Sheets
    /\ uploaded_file = None
    /\ cache = None
    /\ chsn = Views[1]
    /\ modify = FALSE
    /\ to_filter_columns = <<>>
    /\ user_input = <<>>
    /\ filtered_df = EmptyTable
    /\ controls = <<>>
    /\ error = "none"
    /\ shown = "none"
    /\ dfx = <<>>
    /\ dfy = <<>>

CallFilter ==
    /\ pc = "drawn"
    /\ \E add_filters \in BOOLEAN :
       \E columns \in (IF add_filters THEN ColumnChoices ELSE {<<>>}) :
       \E inputs \in InputChoices(Normalize(excel_df), columns, 1) :
       \E out \in {filter_dataframe(excel_df, add_filters, columns, inputs)} :
          /\ modify' = add_filters
          /\ to_filter_columns' = columns
          /\ user_input' = inputs
          /\ excel_df' = out.given
          /\ filtered_df' = (IF out.err = "none" THEN out.df ELSE EmptyTable)
          /\ controls' = out.controls
          /\ error' = out.err
    /\ pc' = "filtered"
    /\ UNCHANGED <<uploaded_file, cache, chsn, shown, dfx, dfy>>

SpecFilter == InitFilter /\ [][CallFilter]_vars

(***************************************************************************)
(* Properties of filter_dataframe.                                         *)
(***************************************************************************)
Called == pc = "filtered"

\* The predicate the widget of control ctl, holding inp, puts on a row.
Satisfies(ctl, inp, r) ==
    LET cell == r[ctl.column]
        sel == IF inp.picked THEN inp.dates ELSE ctl.value
    IN IF ctl.kind = "categorical"
       THEN \E k \in (1..Len(ctl.options)) \ inp.drop : ctl.options[k] = cell
       ELSE IF ctl.kind = "numeric"
       THEN /\ ~cell.na
            /\ SliderSteps * (cell.n - ctl.min) >= inp.klo * (ctl.max - ctl.min)
            /\ SliderSteps * (cell.n - ctl.min) <= inp.khi * (ctl.max - ctl.min)
       ELSE IF ctl.kind = "datetime"
       THEN Len(sel) = 2 =>
                /\ ~cell.na
                /\ sel[1] <= cell.d
                /\ cell.d < sel[2] \/ (cell.d = sel[2] /\ cell.t = 0)
       ELSE inp.pat = <<>> \/ Contains(cell.s, inp.pat)

\* The working copy of the table filter_dataframe was given, and its row
\* with label i (read_excel labels the rows 0, 1, ...).
Working == Normalize(excel_df)
RowAt(w, i) == w.rows[i + 1]

\* The labels among `labels` whose row of w has a value in `column`.
PresentLabels(w, labels, column) ==
    SelectSeq(labels, LAMBDA i : ~RowAt(w, i)[column].na)

\* The rows of w that satisfy the predicates of both controls.
Conjunction(w, ctls, inps) ==
    SelectSeq(w.rows, LAMBDA r :
        /\ Satisfies(ctls[1], inps[1], r)
        /\ Satisfies(ctls[2], inps[2], r))

\* C1: with the "Add filters" checkbox off, filter_dataframe returns its
\* input: same rows in the same order, same columns, same column types.
C1_CheckboxOffIdentity ==
    (Called /\ ~modify) =>
        /\ error = "none"
        /\ filtered_df = excel_df
        /\ excel_df \in Sheets

\* A call with the checkbox off on a table that the filter path would alter.
C1_Witness ==
    /\ Called /\ ~modify
    /\ Len(filtered_df.rows) >= CategoricalLimit
    /\ Normalize(excel_df) # excel_df

C3_DefaultIsNoOp ==
    \A k \in 1..Len(controls) :
        (Called /\ user_input[k] = DefaultInput) =>
            controls[k].after = controls[k].before

\* C6: the numeric filter at its full range [min, max] returns exactly the
\* rows of the in-progress table with a value in the column, ends included.
C6_FullRangeKeepsPresent ==
    \A k \in 1..Len(controls) :
        (/\ Called
         /\ controls[k].kind = "numeric"
         /\ user_input[k].klo = 0
         /\ user_input[k].khi = SliderSteps) =>
            controls[k].after =
                PresentLabels(Working, controls[k].before, controls[k].column)

\* A full-range numeric filter, on a narrowed table, that drops a row with
\* no value and keeps the rows holding the minimum and the maximum.
C6_Witness ==
    /\ Called /\ Len(controls) = 2
    /\ controls[2].kind = "numeric"
    /\ user_input[2].klo = 0 /\ user_input[2].khi = SliderSteps
    /\ Len(controls[2].before) < Len(excel_df.rows)
    /\ Len(controls[2].after) < Len(controls[2].before)
    /\ \E i \in 1..Len(controls[2].after) :
           RowAt(excel_df, controls[2].after[i]).MIKTAR.n = controls[2].min
    /\ \E i \in 1..Len(controls[2].after) :
           RowAt(excel_df, controls[2].after[i]).MIKTAR.n = controls[2].max

\* The selected column of control ctl is numeric and holds one distinct value
\* in the table the control was computed from.
SingleValuedNumeric(w, ctl) ==
    LET present == PresentLabels(w, ctl.before, ctl.column) IN
    /\ is_numeric_dtype(w.dtypes[ctl.column])
    /\ Cardinality({RowAt(w, present[i])[ctl.column].n : i \in 1..Len(present)}) = 1

DistinctBefore(w, ctl) ==
    LET present == PresentLabels(w, ctl.before, ctl.column) IN
    Cardinality({RowAt(w, present[i])[ctl.column] : i \in 1..Len(present)})

\* The kind the precedence of the four kinds gives the column of ctl.
KindByPrecedence(w, ctl) ==
    LET dtype == w.dtypes[ctl.column] IN
    IF dtype = "category" \/ DistinctBefore(w, ctl) < CategoricalLimit
    THEN "categorical"
    ELSE IF dtype \in {"int64", "float64"} THEN "numeric"
    ELSE IF dtype \in {"datetime64[ns]", "datetime64[ns, UTC]"} THEN "datetime"
    ELSE "text"

Min(a, b) == IF a <= b THEN a ELSE b

\* Stable insertion of rows[k..] into acc, ascending in sign * value.
RECURSIVE StableSort(_, _, _, _, _)
StableSort(rows, column, sign, k, acc) ==
    IF k > Len(rows) THEN acc
    ELSE LET r == rows[k]
             at == Cardinality({j \in 1..Len(acc) :
                                  sign * acc[j][column].n <= sign * r[column].n})
         IN StableSort(rows, column, sign, k + 1,
                       SubSeq(acc, 1, at) \o <<r>> \o SubSeq(acc, at + 1, Len(acc)))

\* The rows sorted on column, equal values in first-seen order, the rows
\* without a value last.
Sorted(df, column, sign) ==
    LET dropped == Present(df, column)
        nan_index == SelectSeq(df.rows, LAMBDA r : r[column].na)
    IN StableSort(dropped, column, sign, 1, <<>>) \o nan_index

\* The positions of `all` whose row and the next hold equal values.
Ties(all, column) ==
    {k \in 1..(Len(all) - 1) :
        /\ ~all[k][column].na /\ ~all[k + 1][column].na
        /\ all[k][column].n = all[k + 1][column].n}

\* The orders a call may leave equal values in.
TieOrders(n, df, column, sign) ==
    IF n >= Len(df.rows) THEN {0} \cup Ties(Sorted(df, column, sign), column)
    ELSE {0}

SelectN(n, df, column, sign, tie) ==
    LET all == Sorted(df, column, sign) IN
    IF n >= Len(df.rows)
    THEN IF tie = 0 THEN all
         ELSE [all EXCEPT ![tie] = all[tie + 1], ![tie + 1] = all[tie]]
    ELSE SubSeq(all, 1, n)

nlargest(n, df, column, tie) == SelectN(n, df, column, -1, tie)
nsmallest(n, df, column, tie) == SelectN(n, df, column, 1, tie)

show_tab4(df, tx, ty) ==
    [dfx |-> nlargest(TopN, df, "MIKTAR", tx), dfy |-> nsmallest(TopN, df, "MIKTAR", ty)]

\* What the view chosen leaves in dfx and dfy, lines 464-471.
Shown(view, df) ==
    IF view = "show_tab4"
    THEN {show_tab4(df, tx, ty) : tx \in TieOrders(TopN, df, "MIKTAR", -1),
                                  ty \in TieOrders(TopN, df, "MIKTAR", 1)}
    ELSE {[dfx |-> <<>>, dfy |-> <<>>]}

\* The if / elif chain of lines 464-471.
ViewOf(choice) ==
    IF choice = Views[1] THEN "show_tab1"
    ELSE IF choice = Views[2] THEN "show_tab2"
    ELSE IF choice = Views[3] THEN "show_tab3"
    ELSE "show_tab4"

(***************************************************************************)
(* get_data_from_excel, lines 427-444.  The function takes no argument, so *)
(* st.cache_data holds one entry for it: once a call has returned, every   *)
(* later call gets (a copy of) that entry and pd.read_excel does not run.  *)
(* read_excel raises when the file has no sheet named "Monthly"; an        *)
(* exception is not cached.                                                *)
(***************************************************************************)
get_data_from_excel(file, entry) ==
    IF entry # None
    THEN [value |-> entry[1], cache |-> entry, err |-> "none"]
    ELSE IF file.monthly
    THEN [value |-> Sheet(file), cache |-> Some(Sheet(file)), err |-> "none"]
    ELSE [value |-> EmptyTable, cache |-> None, err |-> "WorksheetNotFound"]

(***************************************************************************)
(* One run of the script, lines 446-471, from the widget values.           *)
(***************************************************************************)
\* What the widget of control ctl holds of inp.
Held(ctl, inp) ==
    IF ctl.kind = "categorical"
    THEN [DefaultInput EXCEPT !.drop = {k \in inp.drop : k <= Len(ctl.options)}]
    ELSE IF ctl.kind = "numeric"
    THEN [DefaultInput EXCEPT !.klo = inp.klo, !.khi = inp.khi]
    ELSE IF ctl.kind = "datetime"
    THEN [DefaultInput EXCEPT !.picked = inp.picked,
                              !.dates = IF inp.picked THEN inp.dates ELSE <<>>]
    ELSE [DefaultInput EXCEPT !.pat = inp.pat]

\* The per-column widget values after a run: a widget that was not rendered
\* comes back with its default.
WidgetValues(ctls, columns, inputs) ==
    Rows([k \in 1..Len(columns) |->
            IF k <= Len(ctls) THEN Held(ctls[k], inputs[k]) ELSE DefaultInput],
         Len(columns))

Unrendered(entry, choice, err) ==
    [cache |-> entry, chsn |-> choice, modify |-> FALSE, to_filter_columns |-> <<>>,
     user_input |-> <<>>, excel_df |-> EmptyTable, filtered_df |-> EmptyTable,
     controls |-> <<>>, error |-> err, shown |-> "none"]

\* Lines 462-471 after filter_dataframe, out being its outcome.
Rendered(load, choice, add_filters, columns, inputs, out) ==
    [cache |-> load.cache,
     chsn |-> choice,
     modify |-> add_filters,
     to_filter_columns |-> columns,
     user_input |-> WidgetValues(out.controls, columns, inputs),
     excel_df |-> out.given,
     filtered_df |-> IF out.err = "none" THEN out.df ELSE EmptyTable,
     controls |-> out.controls,
     error |-> out.err,
     shown |-> IF out.err = "none" THEN ViewOf(choice) ELSE "none"]

\* Lines 462-471, after a load that returned.  The multiselect and the
\* column widgets exist only with the checkbox on.
Render(load, choice, add_filters, columns, inputs) ==
    Rendered(load, choice, add_filters, columns, inputs,
             filter_dataframe(load.value, add_filters, columns, inputs))

\* Lines 453-471.
Script(file, entry, choice, add_filters, columns, inputs) ==
    IF file = None
    THEN Unrendered(entry, Views[1], "none")
    ELSE LET load == get_data_from_excel(file[1], entry) IN
         IF load.err # "none"
         THEN Unrendered(load.cache, choice, load.err)
         ELSE Render(load, choice, add_filters,
                     IF add_filters THEN columns ELSE <<>>,
                     IF add_filters THEN inputs ELSE <<>>)

\* A run of the script with the given widget values.
Run(file, choice, add_filters, columns, inputs) ==
    \E out \in {Script(file, cache, choice, add_filters, columns, inputs)} :
    \E tab4 \in Shown(out.shown, out.filtered_df) :
        /\ pc' = "page"
        /\ uploaded_file' = file
        /\ cache' = out.cache
        /\ chsn' = out.chsn
        /\ modify' = out.modify
        /\ to_filter_columns' = out.to_filter_columns
        /\ user_input' = out.user_input
        /\ excel_df' = out.excel_df
        /\ filtered_df' = out.filtered_df
        /\ controls' = out.controls
        /\ error' = out.error
        /\ shown' = out.shown
        /\ dfx' = tab4.dfx
        /\ dfy' = tab4.dfy

(***************************************************************************)
(* Spec: the page.  Each action is one user interaction with one widget,   *)
(* followed by the run of the script it triggers.                          *)
(***************************************************************************)
\* The files a user uploads: two with a "Monthly" sheet (a long one whose AY
\* column is date text, a short one with empty cells), one without.
PageFiles ==
    {[monthly |-> TRUE, n |-> MaxRows - 1, q |-> "distinct", a |-> "datestrz",
      miss |-> FALSE],
     [monthly |-> TRUE, n |-> 2, q |-> "few", a |-> "mixed", miss |-> TRUE],
     [monthly |-> FALSE, n |-> 0, q |-> "few", a |-> "datetime", miss |-> FALSE]}

CheckboxRendered == uploaded_file # None /\ error # "WorksheetNotFound"

Init ==
    /\ pc = "page"
    /\ uploaded_file = None
    /\ cache = None
    /\ chsn = Views[1]
    /\ modify = FALSE
    /\ to_filter_columns = <<>>
    /\ user_input = <<>>
    /\ excel_df = EmptyTable
    /\ filtered_df = EmptyTable
    /\ controls = <<>>
    /\ error = "none"
    /\ shown = "none"
    /\ dfx = <<>>
    /\ dfy = <<>>

\* st.file_uploader, line 453: another file is uploaded, or the file removed.
Upload ==
    \E file \in {None} \cup {Some(f) : f \in PageFiles} :
        /\ file # uploaded_file
        /\ Run(file, chsn, modify, to_filter_columns, user_input)

\* st.radio, lines 455-457.
ChooseView ==
    \E k \in 1..Len(Views) :
        /\ uploaded_file # None
        /\ Views[k] # chsn
        /\ Run(uploaded_file, Views[k], modify, to_filter_columns, user_input)

\* st.checkbox("Add filters"), line 361.
ToggleFilters ==
    /\ CheckboxRendered
    /\ Run(uploaded_file, chsn, ~modify, <<>>, <<>>)

\* st.multiselect("Filter dataframe on"), line 382: one more column.
SelectColumn ==
    \E c \in ColumnSet :
        /\ CheckboxRendered /\ modify
        /\ Len(to_filter_columns) < MaxSelected
        /\ Append(to_filter_columns, c) \in ColumnChoices
        /\ Run(uploaded_file, chsn, modify, Append(to_filter_columns, c),
               Append(user_input, DefaultInput))

\* st.multiselect("Filter dataframe on"), line 382: the last column removed.
DeselectColumn ==
    /\ CheckboxRendered /\ modify
    /\ to_filter_columns # <<>>
    /\ Run(uploaded_file, chsn, modify,
           SubSeq(to_filter_columns, 1, Len(to_filter_columns) - 1),
           SubSeq(user_input, 1, Len(user_input) - 1))

\* The widget of a selected column, lines 388, 398, 407, 419.
SetInput ==
    \E k \in 1..Len(controls) :
    \E inp \in InputsFor(controls[k]) :
        /\ inp # user_input[k]
        /\ Run(uploaded_file, chsn, modify, to_filter_columns,
               [user_input EXCEPT ![k] = inp])

Next ==
    \/ Upload
    \/ ChooseView
    \/ ToggleFilters
    \/ SelectColumn
    \/ DeselectColumn
    \/ SetInput

Spec == Init /\ [][Next]_vars

(***************************************************************************)
(* Properties of the page.                                                 *)
(***************************************************************************)
\* The parsed "Monthly" sheets of the files the user uploads.
Loaded == {Sheet(f) : f \in {g \in PageFiles : g.monthly}}

\* C4: the table get_data_from_excel returns in a render is the parsed
\* "Monthly" sheet of the file currently uploaded, also after a file with
\* different content replaced an earlier one.
C4_LoadIsCurrentFile ==
    (uploaded_file # None /\ uploaded_file[1].monthly) =>
        /\ error # "WorksheetNotFound"
        /\ excel_df = Sheet(uploaded_file[1])
        /\ cache = Some(Sheet(uploaded_file[1]))

\* C5: an invalid pattern in the widget of a free-text column fails that
\* column's step only: no exception leaves filter_dataframe, a table is
\* returned and the chosen view is rendered in that run.
C5_InvalidPatternSkipsColumn ==
    \A k \in 1..Len(controls) :
        (controls[k].kind = "text" /\ InvalidPattern(user_input[k].pat)) =>
            /\ error = "none"
            /\ shown = ViewOf(chsn)

\* C8: with an uploaded file that has no sheet named "Monthly" the load
\* raises, nothing is cached for the file, and neither filter_dataframe nor
\* a view runs in that render.
C8_MissingSheetStopsRender ==
    (uploaded_file # None /\ ~uploaded_file[1].monthly) =>
        /\ error = "WorksheetNotFound"
        /\ excel_df = EmptyTable
        /\ cache = None \/ cache[1] # Sheet(uploaded_file[1])
        /\ controls = <<>>
        /\ shown = "none"

\* C10: filter_dataframe never mutates the table it is given: after every
\* render the table handed to it, and the cached load result, are a parsed
\* sheet exactly as loaded, and a render with the checkbox off returns it.
C10_LoadResultNeverMutated ==
    CheckboxRendered =>
        /\ cache # None
        /\ cache[1] \in Loaded
        /\ excel_df = cache[1]
        /\ (~modify => error = "none" /\ filtered_df = cache[1])

\* A render with the checkbox on whose working copy was normalised (the AY
\* text converted, its time zone stripped) and narrowed by a column filter.
C10_Witness ==
    /\ CheckboxRendered /\ modify /\ error = "none"
    /\ Normalize(excel_df) # excel_df
    /\ Len(controls) >= 1
    /\ Len(filtered_df.rows) < Len(excel_df.rows)
    /\ filtered_df.dtypes # excel_df.dtypes

(***************************************************************************)
(* SpecTop: show_tab4 on its own, over filtered tables of up to MaxTopRows *)
(* rows, with distinct or repeated quantities and with or without a row    *)
(* that has no quantity.                                                   *)
(***************************************************************************)
TopTables ==
    {Sheet(f) : f \in [monthly : {TRUE}, n : 0..MaxTopRows, q : {"wide", "few"},
                       a : {"datetime"}, miss : BOOLEAN]}

InitTop ==
    /\ pc = "top-drawn"
    /\ filtered_df \in TopTables
    /\ uploaded_file = None
    /\ cache = None
    /\ chsn = Views[4]
    /\ modify = FALSE
    /\ to_filter_columns = <<>>
    /\ user_input = <<>>
    /\ excel_df = EmptyTable
    /\ controls = <<>>
    /\ error = "none"
    /\ shown = "none"
    /\ dfx = <<>>
    /\ dfy = <<>>

ShowTab4 ==
    /\ pc = "top-drawn"
    /\ \E tab4 \in Shown(ViewOf(chsn), filtered_df) :
           /\ dfx' = tab4.dfx
           /\ dfy' = tab4.dfy
    /\ pc' = "top-shown"
    /\ shown' = ViewOf(chsn)
    /\ UNCHANGED <<uploaded_file, cache, chsn, modify, to_filter_columns,
                   user_input, excel_df, filtered_df, controls, error>>

SpecTop == InitTop /\ [][ShowTab4]_vars

\* The rows of a selection form a sub-table of df, each row taken once.
SelectionOf(sel, df) ==
    /\ \A i \in 1..Len(sel) : \E k \in 1..Len(df.rows) : df.rows[k] = sel[i]
    /\ \A i, j \in 1..Len(sel) : sel[i].index = sel[j].index => i = j

\* sel is ordered on MIKTAR (sign = -1 descending, 1 ascending), rows with
\* no quantity last.
OrderedOn(sel, sign) ==
    \A i, j \in 1..Len(sel) :
        i < j => \/ sel[j].MIKTAR.na
                 \/ /\ ~sel[i].MIKTAR.na
                    /\ sign * sel[i].MIKTAR.n <= sign * sel[j].MIKTAR.n

\* Rows of equal quantity appear in sel in first-seen order.
FirstSeenOrder(sel) ==
    \A i, j \in 1..Len(sel) :
        (/\ i < j
         /\ ~sel[i].MIKTAR.na /\ ~sel[j].MIKTAR.na
         /\ sel[i].MIKTAR.n = sel[j].MIKTAR.n) => sel[i].index < sel[j].index

\* C9: in the Top 25 view both selections hold min(25, number of rows) rows
\* of the filtered table, the top one in descending and the bottom one in
\* ascending quantity order with equal values in first-seen order, and they
\* share no row when the table has 50 or more rows of distinct quantities.
C9_TopBottomSelections ==
    pc = "top-shown" =>
        /\ Len(dfx) = Min(TopN, Len(filtered_df.rows))
        /\ Len(dfy) = Min(TopN, Len(filtered_df.rows))
        /\ SelectionOf(dfx, filtered_df) /\ SelectionOf(dfy, filtered_df)
        /\ OrderedOn(dfx, -1) /\ OrderedOn(dfy, 1)
        /\ FirstSeenOrder(dfx) /\ FirstSeenOrder(dfy)
        /\ (/\ Len(filtered_df.rows) >= 2 * TopN
            /\ nunique(filtered_df, "MIKTAR") = Len(filtered_df.rows)) =>
               \A i \in 1..Len(dfx) : \A j \in 1..Len(dfy) :
                   dfx[i].index # dfy[j].index

====
